---- MODULE Spec2Model ----
(***************************************************************************)
(* A model of package resource (handle.go): Handle, Track, Untrack, the    *)
(* cleanup strategy variable, the pprof profiles the package files its     *)
(* handles under, and the runtime's cleanup queue it arms.                 *)
(*                                                                         *)
(* Goroutines call Track and Untrack; each statement of a call that        *)
(* touches shared state is one step, so calls interleave as goroutines do. *)
(* The garbage collector is the environment: a resource becomes            *)
(* unreachable (Drop) once no call holds it, and an armed cleanup of an    *)
(* unreachable resource may then run (RunCleanup).                         *)
(***************************************************************************)
EXTENDS Naturals, Sequences, FiniteSets, TLC

\* ------------------------------------------------------------------ bounds
NumThreads == 2
NumResources == 2
MaxCleanups == 2
\* The deepest call stack above Track the message rendering is checked with.
MaxDepth == 34

\* ------------------------------------------------------- program constants
collectStack == TRUE
pprofEnabled == TRUE
pprofPrefix == "resource/"
\* stk := make([]uintptr, 32)
StackBuf == 32
\* runtime.Callers(2, ...): 0 is Callers itself, 1 is Track, 2 is Track's caller
CallersSkip == 2

Nil == 0
NilProfile == "<nil>"

Threads == 1..NumThreads
Resources == 1..NumResources
\* res := &Resource{h: NewHandle()}: handle i is the field h of resource i.
Handles == 1..NumResources
Owner(h) == h

\* The cleanup strategies: the package's default, which panics, and the one
\* the tests assign, which sends the message over a channel.
Strategies == {"panic", "chan"}
origCleanup == "panic"

\* ------------------------------------------------------------- type names
\* The types T of the tracked resources, by the name reflect gives them.
Types == {"resource.Resource", "resource.Other"}

\* reflect.TypeOf(resource).Elem().String() for resource of type *T.
ElemString(T) == T

\* reflect.TypeOf(resource).String() for resource of type *T.
TypeOfString(T) == "*" \o T

\* pprofPrefix + reflect.TypeOf(resource).Elem().String()
profileName(T) == pprofPrefix \o ElemString(T)

\* ---------------------------------------------------------- stack capture
\* The program counters on the stack while Track(r, ...) runs runtime.Callers,
\* innermost first: Callers, Track, the function that makes resource r and
\* calls Track on it, and that function's callers.
Stack(r) == <<1, 2, 10 + r, 3, 4>>

\* runtime.CallersFrames: the frame a program counter resolves to.
FrameOf(pc) ==
    CASE pc = 1 -> [Function |-> "runtime.Callers", File |-> "runtime/extern.go", Line |-> 345]
      [] pc = 2 -> [Function |-> "github.com/AlekSi/resource.Track", File |-> "resource.go", Line |-> 107]
      [] pc = 3 -> [Function |-> "testing.tRunner", File |-> "testing/testing.go", Line |-> 1934]
      [] pc = 4 -> [Function |-> "runtime.goexit", File |-> "runtime/asm_arm64.s", Line |-> 1268]
      [] OTHER  -> [Function |-> "github.com/AlekSi/resource.TestStacks", File |-> "testtrack.go", Line |-> 100 * (pc - 10)]

Min(a, b) == IF a < b THEN a ELSE b

\* The same with Track called d frames deep: by a function that has d - 1
\* callers, the outermost of them runtime.goexit.
StackOfDepth(r, d) ==
    <<1, 2>> \o [i \in 1..d |-> IF i = d /\ d > 1 THEN 4
                                ELSE IF i = 1 THEN 10 + r ELSE 20 + i]

\* n := runtime.Callers(skip, stk); stk[:n], on the stack given.
CallersFrom(stack, skip, size) ==
    SubSeq(stack, skip + 1, Min(Len(stack), skip + size))

\* n := runtime.Callers(skip, stk); stk[:n]
Callers(r, skip, size) == CallersFrom(Stack(r), skip, size)

\* ------------------------------------------------------------------ Handle
NilPcs == [isNil |-> TRUE, pcs |-> <<>>]

\* new(Handle): the zero Handle.
NewHandle == [c |-> Nil, typ |-> "", profile |-> "", pcs |-> NilPcs]

\* Mutant of FrameLines: the loop tests more before it formats the frame, and
\* so leaves out the last one.
RECURSIVE FrameLinesBreakFirst(_)
FrameLinesBreakFirst(pcs) ==
    IF Len(pcs) <= 1 THEN ""
    ELSE LET f == FrameOf(Head(pcs))
         IN  f.Function \o "\n\t" \o f.File \o ":" \o ToString(f.Line) \o "\n"
               \o FrameLinesBreakFirst(Tail(pcs))

RECURSIVE FrameLines(_)
FrameLines(pcs) ==
    IF pcs = <<>> THEN ""
    ELSE LET f == FrameOf(Head(pcs))
         IN  f.Function \o "\n\t" \o f.File \o ":" \o ToString(f.Line) \o "\n"
               \o FrameLines(Tail(pcs))

\* frames.Next() on no program counters yields the zero Frame and more = false,
\* and the loop formats it before it tests more.
FramesText(pcs) == IF pcs = <<>> THEN "\n\t:0\n" ELSE FrameLines(pcs)

buildPanicMsg(h) ==
    h.typ \o " became unreachable without being released!"
      \o (IF ~h.pcs.isNil
          THEN "\nIt started being tracked at:\n" \o FramesText(h.pcs.pcs)
          ELSE "")

\* ------------------------------------------------------------------- state
VARIABLES
    rtype,      \* rtype[r]: the type T of resource r, a *T
    handle,     \* handle[h]: the fields c, typ, profile, pcs of Handle h
    profiles,   \* runtime/pprof's profiles: name -> the values added to it
    pprofM,     \* the goroutine holding pprofM, or Nil
    cleanups,   \* the runtime's cleanups, in the order AddCleanup made them
    cleanup,    \* the package variable cleanup: the configured strategy
    held,       \* held[r]: the program still holds a reference to r
    th,         \* th[t]: goroutine t's position and locals in Track or Untrack
    crashed,    \* a panic in the cleanup goroutine has ended the process
    hist        \* hist[h]: what has happened to Handle h so far

vars == <<rtype, handle, profiles, pprofM, cleanups, cleanup, held, th, crashed, hist>>

Idle == [pc |-> "idle", op |-> "", r |-> Nil, h |-> Nil, p |-> NilProfile,
         tok |-> Nil, ret |-> ""]

\* passed: h was passed to Track; tracked: a Track of h returned; live: a
\* Track of h returned and no Untrack of h has returned since; urets: the
\* Untrack calls on h that returned since the last Track of h did (or since
\* the start), counted up to 2; upanic: an Untrack of h panicked since then.
NoHist == [passed |-> FALSE, tracked |-> FALSE, live |-> FALSE, urets |-> 0,
           upanic |-> FALSE]

Init ==
    /\ rtype \in [Resources -> Types]
    /\ rtype[1] = "resource.Resource"
    /\ handle = [h \in Handles |-> NewHandle]
    /\ profiles = <<>>
    /\ pprofM = Nil
    /\ cleanups = <<>>
    /\ cleanup = origCleanup
    /\ held = [r \in Resources |-> TRUE]
    /\ th = [t \in Threads |-> Idle]
    /\ crashed = FALSE
    /\ hist = [h \in Handles |-> NoHist]

\* ----------------------------------------------------------------- helpers
\* pprof.Lookup: the profile of that name, or nil.
Lookup(name) == IF name \in DOMAIN profiles THEN name ELSE NilProfile

\* Profile.Count
Count(name) == IF name \in DOMAIN profiles THEN Cardinality(profiles[name]) ELSE 0

InCall(t) == th[t].pc \notin {"idle", "done"}
Quiescent == \A t \in Threads : ~InCall(t)

\* A call on Handle h is in progress.
Busy(h) == \E t \in Threads : InCall(t) /\ th[t].h = h
Tracking(h) == \E t \in Threads : InCall(t) /\ th[t].h = h /\ th[t].op = "Track"

\* Mutant of KeepsAlive: Untrack's last use of resource is before h.Stop().
KeepsAliveBeforeStop(t) ==
    th[t].pc \in {"t_lookup", "t_lock", "t_lookup2", "t_new", "t_unlock", "t_add",
                  "t_arm", "u_swap"}

\* Track uses resource up to and including runtime.AddCleanup; Untrack up to
\* runtime.KeepAlive(resource), which follows the Swap and the Stop.
KeepsAlive(t) ==
    th[t].pc \in {"t_lookup", "t_lock", "t_lookup2", "t_new", "t_unlock", "t_add",
                  "t_arm", "u_swap", "u_stop"}

Pins(t, r) == th[t].r = r /\ KeepsAlive(t)

\* The values a profile holds: p.Add(value, skip) keeps a reference to value.
HandleValue(h) == <<"Handle", h>>
ResourceValue(r) == <<"Resource", r>>

\* What the garbage collector sees: r is referenced by the program, by a call
\* in progress, or by a value a profile holds (a Handle does not point to its
\* resource).
Reachable(r) ==
    \/ held[r]
    \/ \E t \in Threads : Pins(t, r)
    \/ \E name \in DOMAIN profiles : ResourceValue(r) \in profiles[name]

\* Track calls that have yet to reach runtime.AddCleanup.
Arming == {t \in Threads : th[t].op = "Track" /\ InCall(t) /\ th[t].pc # "t_store"}

\* Mutant of checkArgs: the check of the Handle is missing.
checkArgsResourceOnly(r, h) ==
    IF r = Nil THEN "resource must not be nil" ELSE ""

\* The argument checks both functions start with: the panic, "" for none.
checkArgs(r, h) ==
    IF r = Nil THEN "resource must not be nil"
    ELSE IF h = Nil THEN "handle must not be nil"
    ELSE ""

\* The call is over: it returned ("ok") or panicked (the message).
Done(t, msg) == [th EXCEPT ![t] = [Idle EXCEPT !.pc = "done", !.op = th[t].op,
                                               !.ret = msg]]
Goto(t, pc) == [th EXCEPT ![t].pc = pc]

\* ------------------------------------------------------------------- Track
\* The call and its argument checks.
TrackEnter(t, r, h) ==
    /\ ~crashed
    /\ th[t].pc = "idle"
    /\ r # Nil => held[r]
    /\ h # Nil => ~Busy(h)
    /\ (r # Nil /\ h # Nil) => Len(cleanups) + Cardinality(Arming) < MaxCleanups
    /\ LET msg == checkArgs(r, h)
       IN  /\ th' = [th EXCEPT ![t] =
                        IF msg # ""
                        THEN [Idle EXCEPT !.pc = "done", !.op = "Track", !.ret = msg]
                        ELSE [Idle EXCEPT !.pc = "t_lookup", !.op = "Track",
                                          !.r = r, !.h = h]]
           /\ hist' = IF msg # "" THEN hist ELSE [hist EXCEPT ![h].passed = TRUE]
    /\ UNCHANGED <<rtype, handle, profiles, pprofM, cleanups, cleanup, held, crashed>>

\* The documented use: a Handle is passed together with the resource holding it.
TrackCall(t, r, h) ==
    /\ (r # Nil /\ h # Nil) => Owner(h) = r
    /\ TrackEnter(t, r, h)

\* Against the documentation: a Handle that is tracking its resource is passed
\* to Track again, with another resource.
TrackForeign(t, r, h) ==
    /\ r # Nil /\ h # Nil /\ Owner(h) # r
    /\ hist[h].live
    /\ TrackEnter(t, r, h)

\* The fast path: p := pprof.Lookup(profile)
TrackLookup(t) ==
    /\ ~crashed
    /\ th[t].pc = "t_lookup"
    /\ LET p == Lookup(profileName(rtype[th[t].r]))
       IN  th' = [th EXCEPT ![t].p = p,
                            ![t].pc = IF p = NilProfile THEN "t_lock" ELSE "t_add"]
    /\ UNCHANGED <<rtype, handle, profiles, pprofM, cleanups, cleanup, held, crashed, hist>>

\* pprofM.Lock()
TrackLock(t) ==
    /\ ~crashed
    /\ th[t].pc = "t_lock"
    /\ pprofM = Nil
    /\ pprofM' = t
    /\ th' = Goto(t, "t_lookup2")
    /\ UNCHANGED <<rtype, handle, profiles, cleanups, cleanup, held, crashed, hist>>

\* Mutant of TrackLookupLocked: the slow path creates the profile without
\* looking it up again under the lock.
TrackLookupLockedSkipped(t) ==
    /\ ~crashed
    /\ th[t].pc = "t_lookup2"
    /\ th' = Goto(t, "t_new")
    /\ UNCHANGED <<rtype, handle, profiles, pprofM, cleanups, cleanup, held, crashed, hist>>

\* if p = pprof.Lookup(profile); p == nil
TrackLookupLocked(t) ==
    /\ ~crashed
    /\ th[t].pc = "t_lookup2"
    /\ LET p == Lookup(profileName(rtype[th[t].r]))
       IN  th' = [th EXCEPT ![t].p = p,
                            ![t].pc = IF p = NilProfile THEN "t_new" ELSE "t_unlock"]
    /\ UNCHANGED <<rtype, handle, profiles, pprofM, cleanups, cleanup, held, crashed, hist>>

\* p = pprof.NewProfile(profile), which panics when the name is in use.
TrackNewProfile(t) ==
    /\ ~crashed
    /\ th[t].pc = "t_new"
    /\ LET name == profileName(rtype[th[t].r])
       IN  IF name \in DOMAIN profiles
           THEN /\ th' = Done(t, "pprof: NewProfile name already in use: " \o name)
                /\ UNCHANGED profiles
           ELSE /\ profiles' = profiles @@ (name :> {})
                /\ th' = [th EXCEPT ![t].p = name, ![t].pc = "t_unlock"]
    /\ UNCHANGED <<rtype, handle, pprofM, cleanups, cleanup, held, crashed, hist>>

\* pprofM.Unlock()
TrackUnlock(t) ==
    /\ ~crashed
    /\ th[t].pc = "t_unlock"
    /\ pprofM' = Nil
    /\ th' = Goto(t, "t_add")
    /\ UNCHANGED <<rtype, handle, profiles, cleanups, cleanup, held, crashed, hist>>

\* Mutant of TrackAdd: adding a Handle the profile already holds is accepted.
TrackAddTolerant(t) ==
    /\ ~crashed
    /\ th[t].pc = "t_add"
    /\ profiles' = [profiles EXCEPT ![th[t].p] = @ \cup {HandleValue(th[t].h)}]
    /\ handle' = [handle EXCEPT ![th[t].h].profile = profileName(rtype[th[t].r])]
    /\ th' = Goto(t, "t_arm")
    /\ UNCHANGED <<rtype, pprofM, cleanups, cleanup, held, crashed, hist>>

\* Mutant of TrackAdd: p.Add(h, 2) is missing.
TrackAddSkipped(t) ==
    /\ ~crashed
    /\ th[t].pc = "t_add"
    /\ handle' = [handle EXCEPT ![th[t].h].profile = profileName(rtype[th[t].r])]
    /\ th' = Goto(t, "t_arm")
    /\ UNCHANGED <<rtype, profiles, pprofM, cleanups, cleanup, held, crashed, hist>>

\* Mutant of TrackAdd: the profile is given the resource itself, p.Add(resource, 2).
TrackAddResource(t) ==
    /\ ~crashed
    /\ th[t].pc = "t_add"
    /\ LET p == th[t].p
           h == th[t].h
           r == th[t].r
       IN  IF ResourceValue(r) \in profiles[p]
           THEN /\ th' = Done(t, "pprof: Profile.Add of duplicate value")
                /\ UNCHANGED <<profiles, handle>>
           ELSE /\ profiles' = [profiles EXCEPT ![p] = @ \cup {ResourceValue(r)}]
                /\ handle' = [handle EXCEPT ![h].profile = profileName(rtype[r])]
                /\ th' = Goto(t, "t_arm")
    /\ UNCHANGED <<rtype, pprofM, cleanups, cleanup, held, crashed, hist>>

\* p.Add(h, 2), which panics when the profile already holds h; h.profile = profile
TrackAdd(t) ==
    /\ ~crashed
    /\ th[t].pc = "t_add"
    /\ LET p == th[t].p
           h == th[t].h
       IN  IF HandleValue(h) \in profiles[p]
           THEN /\ th' = Done(t, "pprof: Profile.Add of duplicate value")
                /\ UNCHANGED <<profiles, handle>>
           ELSE /\ profiles' = [profiles EXCEPT ![p] = @ \cup {HandleValue(h)}]
                /\ handle' = [handle EXCEPT ![h].profile = profileName(rtype[th[t].r])]
                /\ th' = Goto(t, "t_arm")
    /\ UNCHANGED <<rtype, pprofM, cleanups, cleanup, held, crashed, hist>>

\* Mutant of TrackArm: the stack is captured with runtime.Callers(1, ...).
TrackArmSkipsOne(t) ==
    /\ ~crashed
    /\ th[t].pc = "t_arm"
    /\ LET h == th[t].h
           r == th[t].r
       IN  /\ handle' = [handle EXCEPT
                           ![h].typ = TypeOfString(rtype[r]),
                           ![h].pcs = [isNil |-> FALSE,
                                       pcs |-> Callers(r, CallersSkip - 1, StackBuf)]]
           /\ cleanups' = Append(cleanups,
                            [ptr |-> r, fn |-> cleanup, arg |-> h, st |-> "armed",
                             track |-> Len(cleanups) + 1, n |-> 0, msg |-> "",
                             stopCalled |-> FALSE, released |-> FALSE])
    /\ th' = [th EXCEPT ![t].tok = Len(cleanups) + 1, ![t].pc = "t_store"]
    /\ UNCHANGED <<rtype, profiles, pprofM, cleanup, held, crashed, hist>>

\* Mutant of TrackArm: runtime.AddCleanup is called twice in the one Track.
TrackArmTwice(t) ==
    /\ ~crashed
    /\ th[t].pc = "t_arm"
    /\ LET h == th[t].h
           r == th[t].r
           c == [ptr |-> r, fn |-> cleanup, arg |-> h, st |-> "armed",
                 track |-> Len(cleanups) + 1, n |-> 0, msg |-> "",
                 stopCalled |-> FALSE, released |-> FALSE]
       IN  /\ handle' = [handle EXCEPT
                           ![h].typ = TypeOfString(rtype[r]),
                           ![h].pcs = [isNil |-> FALSE,
                                       pcs |-> Callers(r, CallersSkip, StackBuf)]]
           /\ cleanups' = cleanups \o <<c, c>>
    /\ th' = [th EXCEPT ![t].tok = Len(cleanups) + 2, ![t].pc = "t_store"]
    /\ UNCHANGED <<rtype, profiles, pprofM, cleanup, held, crashed, hist>>

\* h.typ = reflect.TypeOf(resource).String(); h.pcs = stk[:runtime.Callers(2, stk)];
\* c := runtime.AddCleanup(resource, cleanup, h): the function the variable
\* cleanup holds now is the one the runtime will call.
TrackArm(t) ==
    /\ ~crashed
    /\ th[t].pc = "t_arm"
    /\ LET h == th[t].h
           r == th[t].r
       IN  /\ handle' = [handle EXCEPT
                           ![h].typ = TypeOfString(rtype[r]),
                           ![h].pcs = IF collectStack
                                      THEN [isNil |-> FALSE,
                                            pcs |-> Callers(r, CallersSkip, StackBuf)]
                                      ELSE @]
           /\ cleanups' = Append(cleanups,
                            [ptr |-> r, fn |-> cleanup, arg |-> h, st |-> "armed",
                             track |-> Len(cleanups) + 1, n |-> 0, msg |-> "",
                             stopCalled |-> FALSE, released |-> FALSE])
    /\ th' = [th EXCEPT ![t].tok = Len(cleanups) + 1, ![t].pc = "t_store"]
    /\ UNCHANGED <<rtype, profiles, pprofM, cleanup, held, crashed, hist>>

\* h.c.Store(&c), and Track returns.
TrackStore(t) ==
    /\ ~crashed
    /\ th[t].pc = "t_store"
    /\ handle' = [handle EXCEPT ![th[t].h].c = th[t].tok]
    /\ th' = Done(t, "ok")
    /\ hist' = [hist EXCEPT ![th[t].h].tracked = TRUE, ![th[t].h].live = TRUE,
                            ![th[t].h].urets = 0, ![th[t].h].upanic = FALSE]
    /\ UNCHANGED <<rtype, profiles, pprofM, cleanups, cleanup, held, crashed>>

\* ----------------------------------------------------------------- Untrack
\* The call and its argument checks.
UntrackCall(t, r, h) ==
    /\ ~crashed
    /\ th[t].pc = "idle"
    /\ r # Nil => held[r]
    /\ h # Nil => ~Tracking(h)
    /\ (r # Nil /\ h # Nil) => Owner(h) = r
    /\ LET msg == checkArgs(r, h)
       IN  th' = [th EXCEPT ![t] =
                     IF msg # ""
                     THEN [Idle EXCEPT !.pc = "done", !.op = "Untrack", !.ret = msg]
                     ELSE [Idle EXCEPT !.pc = "u_swap", !.op = "Untrack",
                                       !.r = r, !.h = h]]
    /\ UNCHANGED <<rtype, handle, profiles, pprofM, cleanups, cleanup, held, crashed, hist>>

\* Mutant of UntrackSwap: the token is read with Load and left in place.
UntrackSwapLoads(t) ==
    /\ ~crashed
    /\ th[t].pc = "u_swap"
    /\ LET c == handle[th[t].h].c
       IN  th' = [th EXCEPT ![t].tok = c,
                            ![t].pc = IF c # Nil THEN "u_stop" ELSE "u_remove"]
    /\ UNCHANGED <<rtype, handle, profiles, pprofM, cleanups, cleanup, held, crashed, hist>>

\* h := h.c.Swap(nil); h != nil. With nothing to stop, the call goes on to
\* runtime.KeepAlive(resource), after which it no longer uses resource.
UntrackSwap(t) ==
    /\ ~crashed
    /\ th[t].pc = "u_swap"
    /\ LET c == handle[th[t].h].c
       IN  th' = [th EXCEPT ![t].tok = c,
                            ![t].pc = IF c # Nil THEN "u_stop" ELSE "u_remove"]
    /\ handle' = [handle EXCEPT ![th[t].h].c = Nil]
    /\ UNCHANGED <<rtype, profiles, pprofM, cleanups, cleanup, held, crashed, hist>>

\* Cleanup.Stop: the cleanup will not run, unless its resource was already
\* unreachable, when the runtime may have queued it and Stop has no effect.
Stop(c, effective) ==
    IF c.st = "armed" /\ effective
    THEN [c EXCEPT !.st = "stopped", !.stopCalled = TRUE]
    ELSE [c EXCEPT !.stopCalled = TRUE]

\* Mutant of UntrackStop: the token is taken but h.Stop() is not called.
UntrackStopSkipped(t) ==
    /\ ~crashed
    /\ th[t].pc = "u_stop"
    /\ th' = Goto(t, "u_remove")
    /\ UNCHANGED <<rtype, handle, profiles, pprofM, cleanups, cleanup, held, crashed, hist>>

\* h.Stop(); runtime.KeepAlive(resource)
UntrackStop(t) ==
    /\ ~crashed
    /\ th[t].pc = "u_stop"
    /\ LET s == th[t].tok
       IN  \E effective \in BOOLEAN :
              /\ Reachable(cleanups[s].ptr) => effective
              /\ cleanups' = [cleanups EXCEPT ![s] = Stop(@, effective)]
    /\ th' = Goto(t, "u_remove")
    /\ UNCHANGED <<rtype, handle, profiles, pprofM, cleanup, held, crashed, hist>>

\* Mutant of UntrackRemove: removing a Handle the group does not hold panics.
UntrackRemoveStrict(t) ==
    /\ ~crashed
    /\ th[t].pc = "u_remove"
    /\ LET h == th[t].h
           r == th[t].r
           p == Lookup(handle[h].profile)
       IN  IF p = NilProfile \/ HandleValue(h) \notin profiles[p]
           THEN /\ th' = Done(t, "resource is not tracked")
                /\ hist' = [hist EXCEPT ![h].upanic = TRUE]
                /\ UNCHANGED <<profiles, cleanups>>
           ELSE /\ profiles' = [profiles EXCEPT ![p] = @ \ {HandleValue(h)}]
                /\ hist' = [hist EXCEPT ![h].live = FALSE,
                                        ![h].urets = Min(@ + 1, 2)]
                /\ cleanups' = [s \in DOMAIN cleanups |->
                                  IF cleanups[s].ptr = r /\ cleanups[s].arg = h
                                  THEN [cleanups[s] EXCEPT !.released = TRUE]
                                  ELSE cleanups[s]]
                /\ th' = Done(t, "ok")
    /\ UNCHANGED <<rtype, handle, pprofM, cleanup, held, crashed>>

\* Mutant of UntrackRemove: with no profile found, Untrack just returns.
UntrackRemoveSilent(t) ==
    /\ ~crashed
    /\ th[t].pc = "u_remove"
    /\ LET h == th[t].h
           r == th[t].r
           p == Lookup(handle[h].profile)
       IN  /\ profiles' = IF p = NilProfile THEN profiles
                          ELSE [profiles EXCEPT ![p] = @ \ {HandleValue(h)}]
           /\ hist' = [hist EXCEPT ![h].live = FALSE,
                                   ![h].urets = Min(@ + 1, 2)]
           /\ cleanups' = [s \in DOMAIN cleanups |->
                             IF cleanups[s].ptr = r /\ cleanups[s].arg = h
                             THEN [cleanups[s] EXCEPT !.released = TRUE]
                             ELSE cleanups[s]]
           /\ th' = Done(t, "ok")
    /\ UNCHANGED <<rtype, handle, pprofM, cleanup, held, crashed>>

\* Mutant of UntrackRemove: the profile is emptied of every Handle.
UntrackRemoveClears(t) ==
    /\ ~crashed
    /\ th[t].pc = "u_remove"
    /\ LET h == th[t].h
           r == th[t].r
           p == Lookup(handle[h].profile)
       IN  IF p = NilProfile
           THEN /\ th' = Done(t, "resource is not tracked")
                /\ hist' = [hist EXCEPT ![h].upanic = TRUE]
                /\ UNCHANGED <<profiles, cleanups>>
           ELSE /\ profiles' = [profiles EXCEPT ![p] = {}]
                /\ hist' = [hist EXCEPT ![h].live = FALSE,
                                        ![h].urets = Min(@ + 1, 2)]
                /\ cleanups' = [s \in DOMAIN cleanups |->
                                  IF cleanups[s].ptr = r /\ cleanups[s].arg = h
                                  THEN [cleanups[s] EXCEPT !.released = TRUE]
                                  ELSE cleanups[s]]
                /\ th' = Done(t, "ok")
    /\ UNCHANGED <<rtype, handle, pprofM, cleanup, held, crashed>>

\* Mutant of UntrackRemove: p.Remove(h) is missing.
UntrackRemoveForgets(t) ==
    /\ ~crashed
    /\ th[t].pc = "u_remove"
    /\ LET h == th[t].h
           r == th[t].r
           p == Lookup(handle[h].profile)
       IN  IF p = NilProfile
           THEN /\ th' = Done(t, "resource is not tracked")
                /\ hist' = [hist EXCEPT ![h].upanic = TRUE]
                /\ UNCHANGED <<profiles, cleanups>>
           ELSE /\ UNCHANGED profiles
                /\ hist' = [hist EXCEPT ![h].live = FALSE,
                                        ![h].urets = Min(@ + 1, 2)]
                /\ cleanups' = [s \in DOMAIN cleanups |->
                                  IF cleanups[s].ptr = r /\ cleanups[s].arg = h
                                  THEN [cleanups[s] EXCEPT !.released = TRUE]
                                  ELSE cleanups[s]]
                /\ th' = Done(t, "ok")
    /\ UNCHANGED <<rtype, handle, pprofM, cleanup, held, crashed>>

\* p := pprof.Lookup(h.profile); if p == nil { panic(...) }; p.Remove(h), and
\* Untrack returns. (Profiles are never deleted, so the profile found is the
\* one h is removed from.)
UntrackRemove(t) ==
    /\ ~crashed
    /\ th[t].pc = "u_remove"
    /\ LET h == th[t].h
           r == th[t].r
           p == Lookup(handle[h].profile)
       IN  IF p = NilProfile
           THEN /\ th' = Done(t, "resource is not tracked")
                /\ hist' = [hist EXCEPT ![h].upanic = TRUE]
                /\ UNCHANGED <<profiles, cleanups>>
           ELSE /\ profiles' = [profiles EXCEPT ![p] = @ \ {HandleValue(h)}]
                /\ hist' = [hist EXCEPT ![h].live = FALSE,
                                        ![h].urets = Min(@ + 1, 2)]
                /\ cleanups' = [s \in DOMAIN cleanups |->
                                  IF cleanups[s].ptr = r /\ cleanups[s].arg = h
                                  THEN [cleanups[s] EXCEPT !.released = TRUE]
                                  ELSE cleanups[s]]
                /\ th' = Done(t, "ok")
    /\ UNCHANGED <<rtype, handle, pprofM, cleanup, held, crashed>>

\* The caller carries on after the call returned or panicked.
Return(t) ==
    /\ ~crashed
    /\ th[t].pc = "done"
    /\ th' = [th EXCEPT ![t] = Idle]
    /\ UNCHANGED <<rtype, handle, profiles, pprofM, cleanups, cleanup, held, crashed, hist>>

\* ------------------------------------------------------------- environment
\* The program lets go of its last reference to r. A call in progress keeps r
\* alive for as long as it uses its argument.
Drop(r) ==
    /\ ~crashed
    /\ held[r]
    /\ held' = [held EXCEPT ![r] = FALSE]
    /\ UNCHANGED <<rtype, handle, profiles, pprofM, cleanups, cleanup, th, crashed, hist>>

\* Mutant of RunCleanup: the runtime's call also takes the Handle out of its
\* group.
RunCleanupRemoves(s) ==
    /\ ~crashed
    /\ s \in DOMAIN cleanups
    /\ cleanups[s].st = "armed"
    /\ ~Reachable(cleanups[s].ptr)
    /\ cleanups' = [cleanups EXCEPT ![s].st = "fired", ![s].n = @ + 1,
                                    ![s].msg = buildPanicMsg(handle[cleanups[s].arg])]
    /\ crashed' = (cleanups[s].fn = origCleanup)
    /\ profiles' = [name \in DOMAIN profiles |->
                      profiles[name] \ {HandleValue(cleanups[s].arg)}]
    /\ UNCHANGED <<rtype, handle, pprofM, cleanup, held, th, hist>>

\* The runtime calls an armed cleanup of a resource the garbage collector
\* found unreachable: fn(arg).
\* The default strategy panics with the message, which ends the process; the
\* tests' strategy sends the message over a channel.
RunCleanup(s) ==
    /\ ~crashed
    /\ s \in DOMAIN cleanups
    /\ cleanups[s].st = "armed"
    /\ ~Reachable(cleanups[s].ptr)
    /\ cleanups' = [cleanups EXCEPT ![s].st = "fired", ![s].n = @ + 1,
                                    ![s].msg = buildPanicMsg(handle[cleanups[s].arg])]
    /\ crashed' = (cleanups[s].fn = origCleanup)
    /\ UNCHANGED <<rtype, handle, profiles, pprofM, cleanup, held, th, hist>>

\* A test assigns the variable cleanup.
SetCleanup(f) ==
    /\ ~crashed
    /\ f # cleanup
    /\ cleanup' = f
    /\ UNCHANGED <<rtype, handle, profiles, pprofM, cleanups, held, th, crashed, hist>>

\* ----------------------------------------------------------- specification
Calls ==
    \/ \E t \in Threads, r \in Resources \cup {Nil}, h \in Handles \cup {Nil} :
          TrackCall(t, r, h)
    \/ \E t \in Threads : TrackLookup(t)
    \/ \E t \in Threads : TrackLock(t)
    \/ \E t \in Threads : TrackLookupLocked(t)
    \/ \E t \in Threads : TrackNewProfile(t)
    \/ \E t \in Threads : TrackUnlock(t)
    \/ \E t \in Threads : TrackAdd(t)
    \/ \E t \in Threads : TrackArm(t)
    \/ \E t \in Threads : TrackStore(t)
    \/ \E t \in Threads, r \in Resources \cup {Nil}, h \in Handles \cup {Nil} :
          UntrackCall(t, r, h)
    \/ \E t \in Threads : UntrackSwap(t)
    \/ \E t \in Threads : UntrackStop(t)
    \/ \E t \in Threads : UntrackRemove(t)
    \/ \E t \in Threads : Return(t)

Environment ==
    \/ \E r \in Resources : Drop(r)
    \/ \E s \in 1..MaxCleanups : RunCleanup(s)
    \/ \E f \in Strategies : SetCleanup(f)

Next == Calls \/ Environment

\* The package used as documented.
Spec == Init /\ [][Next]_vars

\* The package used with a Handle passed along with a resource not its own.
NextMisuse ==
    \/ Next
    \/ \E t \in Threads, r \in Resources, h \in Handles : TrackForeign(t, r, h)

SpecMisuse == Init /\ [][NextMisuse]_vars

\* The garbage collector runs: a cleanup that can run is not postponed forever.
FairSpec == Spec /\ \A s \in 1..MaxCleanups : WF_vars(RunCleanup(s))

\* --------------------------------------------------------- message rendering
\* Handle h as Track(r, h) leaves it, called d frames deep when the runtime
\* had made k cleanups: p.Add and h.profile, h.typ, h.pcs, AddCleanup, h.c.
TrackedHandle(r, d, k) ==
    [c       |-> k + 1,
     typ     |-> TypeOfString(rtype[r]),
     profile |-> profileName(rtype[r]),
     pcs     |-> IF collectStack
                 THEN [isNil |-> FALSE,
                       pcs |-> CallersFrom(StackOfDepth(r, d), CallersSkip, StackBuf)]
                 ELSE NilPcs]

\* The program after it tracked its first k resources, one after another and
\* each from a call stack of some depth, assigned the tests' strategy and let
\* go of every resource: the Handles buildPanicMsg is given.
InitMsg ==
    /\ rtype \in [Resources -> Types]
    /\ rtype[1] = "resource.Resource"
    /\ \E k \in 1..Min(NumResources, MaxCleanups) :
       \E depth \in [1..k -> 1..MaxDepth] :
          /\ handle = [h \in Handles |->
                         IF h <= k THEN TrackedHandle(Owner(h), depth[h], h - 1)
                         ELSE NewHandle]
          /\ profiles = [name \in {profileName(rtype[Owner(h)]) : h \in 1..k} |->
                           {HandleValue(h) : h \in {g \in 1..k :
                                profileName(rtype[Owner(g)]) = name}}]
          /\ cleanups = [s \in 1..k |->
                           [ptr |-> Owner(s), fn |-> "chan", arg |-> s, st |-> "armed",
                            track |-> s, n |-> 0, msg |-> "",
                            stopCalled |-> FALSE, released |-> FALSE]]
          /\ hist = [h \in Handles |->
                       IF h <= k
                       THEN [NoHist EXCEPT !.passed = TRUE, !.tracked = TRUE,
                                           !.live = TRUE]
                       ELSE NoHist]
    /\ pprofM = Nil
    /\ cleanup = "chan"
    /\ held = [r \in Resources |-> FALSE]
    /\ th = [t \in Threads |-> Idle]
    /\ crashed = FALSE

\* The runtime calls the cleanups, each of which renders its Handle's message.
NextMsg == \E s \in 1..MaxCleanups : RunCleanup(s)

SpecMsg == InitMsg /\ [][NextMsg]_vars

\* ------------------------------------------------------------------ claims
Sessions == DOMAIN cleanups

\* The cleanup the last Track of h armed.
LastSession(h) ==
    CHOOSE s \in Sessions :
        /\ cleanups[s].arg = h
        /\ \A s2 \in Sessions : cleanups[s2].arg = h => s2 <= s

Member(h) ==
    /\ handle[h].profile \in DOMAIN profiles
    /\ HandleValue(h) \in profiles[handle[h].profile]

\* C1: a tracking session (one Track(R,H), one armed cleanup) after whose
\* Track an Untrack(R,H) has returned while R was reachable never has its
\* cleanup run, whatever the garbage collector does afterwards.
C1_UntrackedNeverFires ==
    \A s \in Sessions : cleanups[s].released => cleanups[s].n = 0

\* C1's case: the session was released, its resource has since become
\* unreachable, and the cleanup stays stopped.
C1_Witness ==
    \E s \in Sessions :
        /\ cleanups[s].released
        /\ ~Reachable(cleanups[s].ptr)
        /\ cleanups[s].st = "stopped"

\* C2: after a Track of H, two or more Untrack calls on H, concurrent or one
\* after another: none panics, the session's cleanup has not run, and once
\* they are over H's token is nil and H is out of its group, which is empty
\* when no other Handle was ever tracked.
C2_RepeatedUntrack ==
    \A h \in Handles :
        /\ hist[h].tracked => ~hist[h].upanic
        /\ (hist[h].tracked /\ hist[h].urets >= 1 /\ ~Tracking(h)) =>
              cleanups[LastSession(h)].n = 0
        /\ (hist[h].tracked /\ hist[h].urets = 2 /\ ~Busy(h)) =>
              /\ handle[h].c = Nil
              /\ ~Member(h)
              /\ (\A h2 \in Handles \ {h} : ~hist[h2].passed) =>
                    Count(handle[h].profile) = 0

\* C2's case: two Untrack calls on H have returned, none is in progress, and
\* the resource is unreachable.
C2_Witness ==
    \E h \in Handles :
        /\ hist[h].tracked /\ hist[h].urets = 2 /\ ~Busy(h)
        /\ ~Reachable(Owner(h))

\* The session's Track has returned, nothing has stopped it, and the program
\* holds its resource no longer.
Leaked(s) ==
    /\ s \in Sessions
    /\ cleanups[s].st = "armed"
    /\ ~cleanups[s].stopCalled
    /\ handle[cleanups[s].arg].c = s
    /\ ~held[cleanups[s].ptr]
    /\ \A t \in Threads : ~Pins(t, cleanups[s].ptr)

Fired(s) == s \in Sessions /\ cleanups[s].n >= 1

\* C3: under a garbage collector that keeps running, a session that leaked
\* (tracked, never untracked, the program's references to R gone) has its
\* cleanup run with H, H's membership of its group notwithstanding -- unless
\* the default strategy's panic for another leak ended the process first.
C3_LeakIsReported ==
    \A s \in 1..MaxCleanups : Leaked(s) ~> (Fired(s) \/ crashed)

\* C3's case: the cleanup of a leaked session has run with H while H is a
\* member of its group.
C3_Witness ==
    \E s \in Sessions : Fired(s) /\ Member(cleanups[s].arg) /\ ~crashed

\* C4: the cleanups of one Track run at most once between them, never after
\* an Untrack took the token and called Stop, and only for a Handle that was
\* passed to Track.
C4_FiresAtMostOnce ==
    /\ \A s \in Sessions :
          /\ cleanups[s].n <= 1
          /\ Fired(s) => ~cleanups[s].stopCalled /\ hist[cleanups[s].arg].passed
    /\ \A s1, s2 \in Sessions :
          (s1 # s2 /\ cleanups[s1].track = cleanups[s2].track) =>
             ~(Fired(s1) /\ Fired(s2))
    /\ \A h \in Handles :
          ~hist[h].passed => \A s \in Sessions : cleanups[s].arg # h

\* C4's case: one session's cleanup has run, once, and another session was
\* stopped by an Untrack and its resource is unreachable.
C4_Witness ==
    \E s1, s2 \in Sessions :
        /\ cleanups[s1].n = 1
        /\ cleanups[s2].stopCalled /\ ~Reachable(cleanups[s2].ptr)

\* The Handles of resources of type T that are tracked and not yet untracked.
LiveOfType(T) == {h \in Handles : rtype[Owner(h)] = T /\ hist[h].live}

\* With no call in progress, each group counts its type's live Handles.
C5_CountInv ==
    Quiescent => \A T \in Types : Count(profileName(T)) = Cardinality(LiveOfType(T))

\* The enrolling step of Track and the removing step of the first Untrack
\* move the count of H's group by one, and no other count.
C5_CountStep ==
    \A t \in Threads :
       /\ (th[t].pc = "t_add" /\ th'[t].pc = "t_arm") =>
             \A p \in {th[t].p} :
                /\ Count(p)' = Count(p) + 1
                /\ \A name \in DOMAIN profiles \ {p} : Count(name)' = Count(name)
       /\ (th[t].pc = "u_remove" /\ th'[t].pc = "done" /\ th'[t].ret = "ok"
             /\ hist[th[t].h].live) =>
             \A p \in {handle[th[t].h].profile} :
                /\ Count(p)' = Count(p) - 1
                /\ \A name \in DOMAIN profiles \ {p} : Count(name)' = Count(name)

\* C5: whenever no call is in progress, the count of each type's group is
\* the number of its Handles tracked and not yet untracked (fired leaks
\* included); the step of Track that enrols H raises the count of H's group
\* by one, the step of the first Untrack after it lowers it by one, and no
\* other count moves, however calls on distinct Handles interleave.
C5_GroupCount == []C5_CountInv /\ [][C5_CountStep]_vars

\* C5's case: two Handles of one type were tracked, one has been untracked,
\* no call is in progress and the group counts the other.
C5_Witness ==
    /\ Quiescent
    /\ \E h1, h2 \in Handles :
          /\ h1 # h2 /\ rtype[Owner(h1)] = rtype[Owner(h2)]
          /\ hist[h1].live /\ hist[h2].tracked /\ ~hist[h2].live
          /\ Count(handle[h1].profile) = 1

\* C6: an Untrack of a Handle that was never passed to Track returns without
\* a panic, and no cleanup ever runs with that Handle.
C6_UntrackFreshReturns ==
    \A h \in Handles :
        ~hist[h].passed =>
            /\ ~hist[h].upanic
            /\ \A s \in Sessions : cleanups[s].arg = h => ~Fired(s)

\* C7: a Track of a Handle that is tracked (a Track of it returned and no
\* Untrack of it has since) panics: it gets to arm no second cleanup, whatever
\* the type of the resource passed with the Handle.
C7_DoubleTrackPanics ==
    \A t \in Threads :
        (th[t].op = "Track" /\ th[t].pc \in {"t_arm", "t_store"}) =>
            ~hist[th[t].h].live

NilPanics == {"resource must not be nil", "handle must not be nil"}

\* No call gets past its argument checks with a nil argument.
C8_NoNilInCall ==
    \A t \in Threads : InCall(t) => (th[t].r # Nil /\ th[t].h # Nil)

\* A call that ends at its argument checks panics and changes nothing.
C8_NilStep ==
    \A t \in Threads :
        (th[t].pc = "idle" /\ th'[t].pc = "done") =>
            /\ th'[t].ret \in NilPanics
            /\ UNCHANGED <<rtype, handle, profiles, pprofM, cleanups, cleanup, held,
                           crashed, hist>>

\* C8: a call of Track or Untrack with a nil resource or a nil Handle panics
\* at once: no call is ever under way with a nil argument, and the step that
\* panics changes no group, membership, cleanup, lock or Handle.
C8_NilArgsPanicFirst == []C8_NoNilInCall /\ [][C8_NilStep]_vars

\* C8's case: an Untrack and a Track with a nil argument have panicked while
\* a Handle was tracked.
C8_Witness ==
    /\ \E t \in Threads :
          th[t].pc = "done" /\ th[t].op = "Untrack" /\ th[t].ret = "handle must not be nil"
    /\ \E t \in Threads :
          th[t].pc = "done" /\ th[t].op = "Track" /\ th[t].ret = "resource must not be nil"
    /\ \E h \in Handles : hist[h].live /\ handle[h].c # Nil

\* C9: the type name Track stores in H is the name that follows the prefix
\* in the name of H's group, and line 1 of the message a cleanup renders is
\* that name followed by the fixed sentence.
C9_TypeNameMatchesGroup ==
    /\ \A h \in Handles :
          handle[h].typ # "" => handle[h].profile = pprofPrefix \o handle[h].typ
    /\ \A s \in Sessions :
          Fired(s) =>
             cleanups[s].msg =
                buildPanicMsg([handle[cleanups[s].arg] EXCEPT
                                  !.typ = ElemString(rtype[cleanups[s].ptr])])

\* C10: the strategy a cleanup runs is the one configured when it runs, also
\* for a session tracked before that strategy was configured, and it is
\* given the Handle of the leaked resource.
C10_ConfiguredStrategyRuns ==
    [][\A s \in Sessions :
          (cleanups[s].n = 0 /\ cleanups'[s].n = 1) =>
             (cleanups[s].fn = cleanup /\ Owner(cleanups[s].arg) = cleanups[s].ptr)]_vars

\* A cleanup that has run leaves its Handle in the group.
C11_FiredStaysMember ==
    \A s \in Sessions : Fired(s) => Member(cleanups[s].arg)

\* The step in which a cleanup runs changes no group, and a Handle leaves its
\* group only in the removing step of an Untrack of it.
C11_FireStep ==
    /\ \A s \in Sessions :
          (cleanups[s].n = 0 /\ cleanups'[s].n = 1) => profiles' = profiles
    /\ \A h \in Handles :
          (Member(h) /\ ~Member(h)') =>
             \E t \in Threads : th[t].pc = "u_remove" /\ th[t].h = h

\* C11: when the runtime calls the cleanup of a leaked Handle H and the
\* strategy runs, H's membership and the count of its group are as before: H
\* is still a member afterwards, and only the removal in Untrack takes a
\* Handle out of its group.
C11_FiringKeepsMembership == []C11_FiredStaysMember /\ [][C11_FireStep]_vars

\* C11's case: the tests' strategy has run for a leaked Handle and returned,
\* no call is in progress, and the group still counts two Handles.
C11_Witness ==
    /\ Quiescent /\ ~crashed
    /\ \E s \in Sessions :
          /\ Fired(s) /\ cleanups[s].fn = "chan"
          /\ Count(handle[cleanups[s].arg].profile) = 2

\* strings.Join(lines, "\n"): the text that strings.Split cuts into lines.
RECURSIVE JoinLines(_)
JoinLines(lines) ==
    IF Len(lines) = 1 THEN lines[1]
    ELSE lines[1] \o "\n" \o JoinLines(Tail(lines))

\* The two lines of each of the frames, in the order of the program counters.
PairLines(pcs) ==
    [i \in 1..(2 * Len(pcs)) |->
        LET f == FrameOf(pcs[(i + 1) \div 2])
        IN  IF i % 2 = 1 THEN f.Function
            ELSE "\t" \o f.File \o ":" \o ToString(f.Line)]

\* The lines of the message for Handle h; the text ends with a newline when
\* it has frames, which makes an empty last line.
MsgLines(h) ==
    <<h.typ \o " became unreachable without being released!">>
      \o (IF h.pcs.isNil THEN <<>>
          ELSE <<"It started being tracked at:">> \o PairLines(h.pcs.pcs) \o <<"">>)

\* C12: the message buildPanicMsg renders for a Handle whose stack holds n
\* frames is line 1, then, only if a stack was captured, the line "It started
\* being tracked at:" and exactly n pairs of lines, function and tab,
\* file:line, in the order captured; with no stack there is no frame pair.
\* It holds of the messages the cleanups rendered and of every Handle there is.
C12_MessageLines ==
    /\ \A h \in Handles :
          /\ buildPanicMsg(handle[h]) = JoinLines(MsgLines(handle[h]))
          /\ Len(MsgLines(handle[h])) =
                IF handle[h].pcs.isNil THEN 1 ELSE 3 + 2 * Len(handle[h].pcs.pcs)
    /\ \A s \in Sessions :
          Fired(s) => cleanups[s].msg = JoinLines(MsgLines(handle[cleanups[s].arg]))

\* C12's case: a cleanup has rendered the message of a Handle tracked from a
\* stack that filled the buffer, another that of a Handle with a single frame.
C12_Witness ==
    \E s1, s2 \in Sessions :
        /\ Fired(s1) /\ Len(handle[cleanups[s1].arg].pcs.pcs) = StackBuf
        /\ Fired(s2) /\ Len(handle[cleanups[s2].arg].pcs.pcs) = 1

\* Where Track's own frame is on the stack of the call Track(r, ...).
TrackFrame(r) ==
    CHOOSE i \in 1..Len(Stack(r)) :
        FrameOf(Stack(r)[i]).Function = "github.com/AlekSi/resource.Track"

\* C13: the stack Track(R,H) stores in H starts at the frame of Track's
\* caller, the source location of the Track call, never at Track or at
\* runtime.Callers, and goes on with that frame's callers in their order.
C13_StackStartsAtCaller ==
    \A h \in Handles :
        ~handle[h].pcs.isNil =>
            LET pcs == handle[h].pcs.pcs
                r == Owner(h)
            IN  /\ pcs # <<>>
                /\ FrameOf(pcs[1]).Function \notin
                      {"github.com/AlekSi/resource.Track", "runtime.Callers"}
                /\ FrameOf(pcs[1]).File = "testtrack.go"
                /\ FrameOf(pcs[1]).Line = 100 * r
                /\ pcs = SubSeq(Stack(r), TrackFrame(r) + 1, Len(Stack(r)))

\* C13's case: two resources were tracked at two source locations, and each
\* Handle holds a stack.
C13_Witness ==
    \A h \in Handles : hist[h].tracked /\ ~handle[h].pcs.isNil

\* The Untrack calls past their Swap.
PastSwap == {t \in Threads : th[t].op = "Untrack" /\ th[t].pc \in {"u_stop", "u_remove"}}

\* No two Untrack calls hold the same token, a call is about to call Stop
\* exactly when it holds one, and the Handle of a call past its Swap has none.
C14_OneTaker ==
    /\ \A t1, t2 \in PastSwap :
          (t1 # t2 /\ th[t1].tok # Nil) => th[t1].tok # th[t2].tok
    /\ \A t \in PastSwap :
          /\ th[t].pc = "u_stop" => th[t].tok # Nil
          /\ handle[th[t].h].c = Nil

\* The Swap that obtains a token obtains one Stop was never called on, and
\* the step after it is that token's one call of Stop; a Swap that obtains
\* nil goes on to the removal and leaves every cleanup alone.
C14_SwapStep ==
    \A t \in Threads :
       /\ (th[t].pc = "u_swap" /\ th'[t].pc = "u_stop") =>
             /\ th'[t].tok = handle[th[t].h].c
             /\ ~cleanups[th'[t].tok].stopCalled
       /\ (th[t].pc = "u_swap" /\ th'[t].pc = "u_remove") =>
             /\ handle[th[t].h].c = Nil
             /\ cleanups' = cleanups
       /\ (th[t].pc = "u_stop" /\ th'[t].pc # "u_stop") =>
             /\ ~cleanups[th[t].tok].stopCalled
             /\ cleanups'[th[t].tok].stopCalled

\* C14: of the Untrack calls on one Handle after one Track, however they
\* interleave, at most one obtains the token from the Swap and calls Stop on
\* it, once; every other finds nil and calls no Stop; and the token is nil
\* from the moment any of them is past its Swap.
C14_CancelAtMostOnce == []C14_OneTaker /\ [][C14_SwapStep]_vars

\* C14's case: two Untrack calls on one Handle are past their Swaps, one with
\* the token and about to call Stop, the other with nil.
C14_Witness ==
    \E t1, t2 \in PastSwap :
        /\ th[t1].h = th[t2].h
        /\ th[t1].pc = "u_stop" /\ th[t1].tok # Nil
        /\ th[t2].pc = "u_remove" /\ th[t2].tok = Nil

\* The Untrack calls that have yet to finish their Swap and Stop.
InStopWindow(t) == th[t].op = "Untrack" /\ th[t].pc \in {"u_swap", "u_stop"}

\* In the window no cleanup of R and H has run, and the call that holds the
\* token holds one that is still armed.
C15_WindowInv ==
    \A t \in Threads :
        InStopWindow(t) =>
            /\ \A s \in Sessions :
                  (cleanups[s].ptr = th[t].r /\ cleanups[s].arg = th[t].h) =>
                     cleanups[s].n = 0
            /\ th[t].pc = "u_stop" => cleanups[th[t].tok].st = "armed"

\* No cleanup runs for a resource an Untrack call in the window was given,
\* and the Stop at the end of the window takes effect.
C15_WindowStep ==
    /\ \A s \in Sessions :
          (cleanups[s].n = 0 /\ cleanups'[s].n = 1) =>
             \A t \in Threads : InStopWindow(t) => th[t].r # cleanups[s].ptr
    /\ \A t \in Threads :
          (th[t].pc = "u_stop" /\ th'[t].pc # "u_stop") =>
             cleanups'[th[t].tok].st = "stopped"

\* C15: while an Untrack(R,H) is between its entry and the end of its Swap
\* and Stop, R is reachable and the cleanup for H cannot run; with two
\* Untrack calls, when the one that found nil returns first, the cleanup
\* still cannot run before the other has called Stop, which takes effect.
C15_NoFireDuringUntrack == []C15_WindowInv /\ [][C15_WindowStep]_vars

\* C15's case: the program has let go of R, the Untrack that found nil has
\* returned, and the Untrack that took the token has yet to call Stop.
C15_Witness ==
    \E t \in Threads :
        /\ th[t].op = "Untrack" /\ th[t].pc = "u_stop"
        /\ hist[th[t].h].urets >= 1
        /\ ~held[th[t].r]
        /\ \A t2 \in Threads \ {t} : ~InCall(t2)

\* A call about to create a profile holds pprofM and the name is free; a call
\* about to add its Handle has the profile of its resource's type, which exists;
\* and no call ended in pprof.NewProfile's panic.
C16_CreationInv ==
    \A t \in Threads :
        /\ th[t].pc = "t_new" =>
              /\ pprofM = t
              /\ profileName(rtype[th[t].r]) \notin DOMAIN profiles
        /\ th[t].pc \in {"t_unlock", "t_add"} =>
              /\ th[t].p = profileName(rtype[th[t].r])
              /\ th[t].p \in DOMAIN profiles
        /\ th[t].pc = "done" =>
              \A T \in Types :
                 th[t].ret # "pprof: NewProfile name already in use: " \o profileName(T)

\* A profile that exists stays, with its members but for the one Handle a
\* step adds or removes; a new one starts empty; and the adding step of a
\* Track puts its Handle in the profile of its resource's type.
C16_CreationStep ==
    /\ DOMAIN profiles \subseteq DOMAIN profiles'
    /\ \A name \in DOMAIN profiles :
          Cardinality((profiles[name] \ profiles'[name])
                         \cup (profiles'[name] \ profiles[name])) <= 1
    /\ \A name \in DOMAIN profiles' \ DOMAIN profiles : profiles'[name] = {}
    /\ \A t \in Threads :
          (th[t].pc = "t_add" /\ th'[t].pc = "t_arm") =>
             HandleValue(th[t].h) \in profiles'[profileName(rtype[th[t].r])]

\* C16: with Track calls on resources of one type racing to be the first,
\* one profile of that type's name is created and pprof.NewProfile is never
\* called for a name in use; each of the calls adds its Handle to that
\* profile; and a profile, once created, is never deleted or replaced.
C16_OneGroupPerType == []C16_CreationInv /\ [][C16_CreationStep]_vars

\* C16's case: a Track that found no profile on the fast path holds pprofM
\* and is about to look again, and another Track has created the profile.
C16_Witness ==
    \E t \in Threads :
        /\ th[t].pc = "t_lookup2"
        /\ profileName(rtype[th[t].r]) \in DOMAIN profiles

\* The last step of an Untrack: it panics when no profile has the name H
\* holds, and returns when one has, a member of it or not.
C17_LookupStep ==
    \A t \in Threads :
        (th[t].pc = "u_remove" /\ th'[t].pc = "done") =>
            /\ handle[th[t].h].profile \notin DOMAIN profiles =>
                  th'[t].ret = "resource is not tracked"
            /\ handle[th[t].h].profile \in DOMAIN profiles =>
                  th'[t].ret = "ok"

C18_TokenIffMember ==
    \A h \in Handles :
        /\ handle[h].c # Nil => Member(h)
        /\ ~Busy(h) => (handle[h].c # Nil <=> Member(h))

\* C18's case: one Handle is at rest with its token set, a member, its leak
\* reported; an Untrack of another has cleared the token and has yet to
\* remove the Handle.
C18_Witness ==
    /\ \E h \in Handles :
          /\ ~Busy(h) /\ handle[h].c # Nil /\ Member(h)
          /\ \E s \in Sessions : cleanups[s].arg = h /\ Fired(s)
    /\ \E t \in PastSwap : handle[th[t].h].c = Nil /\ Member(th[t].h)

DuplicatePanic == "pprof: Profile.Add of duplicate value"

\* H is a member of the profile of R's type.
MemberFor(h, r) ==
    /\ profileName(rtype[r]) \in DOMAIN profiles
    /\ HandleValue(h) \in profiles[profileName(rtype[r])]

\* A Track(R,H) that has yet to add H, H being in the profile of R's type.
Rejected(t) ==
    /\ th[t].op = "Track"
    /\ th[t].pc \in {"t_lookup", "t_lock", "t_lookup2", "t_new", "t_unlock", "t_add"}
    /\ MemberFor(th[t].h, th[t].r)

\* Every step of such a call, its entry and its panic included, changes
\* nothing but the call's own position: it finds the profile on the fast
\* path, takes no lock, and ends in Profile.Add's panic with H's token still
\* the armed cleanup of the session under way.
C19_RejectedStep ==
    \A t \in Threads :
       /\ (th[t].pc = "idle" /\ th'[t].op = "Track" /\ InCall(t)' /\ Rejected(t)') =>
             UNCHANGED <<rtype, handle, profiles, pprofM, cleanups, cleanup, held,
                         crashed, hist>>
       /\ (Rejected(t) /\ th'[t] # th[t]) =>
             /\ UNCHANGED <<rtype, handle, profiles, pprofM, cleanups, cleanup, held,
                            crashed, hist>>
             /\ \/ th[t].pc = "t_lookup" /\ th'[t].pc = "t_add"
                \/ /\ th[t].pc = "t_add" /\ th'[t].pc = "done"
                   /\ th'[t].ret = DuplicatePanic
                   /\ handle[th[t].h].c = LastSession(th[t].h)
                   /\ cleanups[LastSession(th[t].h)].st = "armed"
       /\ (InCall(t) /\ th'[t].pc = "done" /\ th'[t].ret = DuplicatePanic) =>
             Rejected(t)

\* A Handle that was tracked and then untracked, with no call on it under
\* way, has the cleanup of its last session stopped, never run, a Track
\* rejected in between or not.
C19_StillReleasable ==
    \A h \in Handles :
        (hist[h].tracked /\ ~hist[h].live /\ ~Busy(h)) =>
            /\ cleanups[LastSession(h)].n = 0
            /\ cleanups[LastSession(h)].st = "stopped"

\* C19: a Track(R,H) that panics because H is in the profile of R's type
\* leaves everything as it was before the call: the profile's members and
\* count, H's token, type name, profile name and stack, and the cleanups,
\* none added; and a later Untrack still releases the session, whose
\* cleanup never runs.
C19_RejectedTrackChangesNothing ==
    [][C19_RejectedStep]_vars /\ []C19_StillReleasable

\* C19's case: a Track of a tracked Handle has panicked in Profile.Add, and
\* since then every session has been released by an Untrack, one cleanup
\* each, and the resources are unreachable.
C19_Witness ==
    /\ \E t \in Threads : th[t].pc = "done" /\ th[t].ret = DuplicatePanic
    /\ Sessions # {}
    /\ \A s \in Sessions :
          /\ cleanups[s].st = "stopped" /\ cleanups[s].released
          /\ ~Reachable(cleanups[s].ptr)
    /\ \A h \in Handles : ~hist[h].live /\ ~Busy(h)
    /\ Len(cleanups) = Cardinality({h \in Handles : hist[h].tracked})

\* The cleanups made with Handle h, as the runtime holds them.
CleanupsOf(h) ==
    {<<s, cleanups[s].st, cleanups[s].fn, cleanups[s].ptr, cleanups[s].n>> :
        s \in {x \in Sessions : cleanups[x].arg = h}}

\* The profiles Handle h is in.
GroupsOf(h) == {name \in DOMAIN profiles : HandleValue(h) \in profiles[name]}

\* The Handle of the call that takes this step, if a call does.
Acting(t) ==
    IF th'[t] = th[t] THEN Nil
    ELSE IF th[t].h # Nil THEN th[t].h ELSE th'[t].h

\* C20: a step of Track(R,H) or Untrack(R,H) leaves every other Handle as it
\* was: its token, its cleanups armed or stopped, its type name, profile
\* name and stack, and the profiles it is in, also when the two Handles share
\* a profile, however the calls on distinct Handles interleave.
C20_OtherHandlesUntouched ==
    [][\A t \in Threads :
          Acting(t) # Nil =>
             \A h2 \in Handles \ {Acting(t)} :
                /\ handle'[h2] = handle[h2]
                /\ CleanupsOf(h2)' = CleanupsOf(h2)
                /\ GroupsOf(h2)' = GroupsOf(h2)]_vars

\* C20's case: two Handles share a profile; one has been tracked and
\* untracked while the other, tracked before, keeps its token, its armed
\* cleanup and its place in the profile.
C20_Witness ==
    \E h1, h2 \in Handles :
        /\ h1 # h2 /\ rtype[Owner(h1)] = rtype[Owner(h2)]
        /\ hist[h1].tracked /\ ~hist[h1].live /\ ~Busy(h1)
        /\ ~Busy(h2) /\ handle[h2].c # Nil /\ LastSession(h2) < LastSession(h1)
        /\ cleanups[handle[h2].c].st = "armed"
        /\ GroupsOf(h2) = {handle[h2].profile}

====
